---- MODULE Spec2Model ----
(***************************************************************************)
(* Metadata store of the sparse convolution engine (src/src/main.hpp):     *)
(* the per-scope cache of coordinate index maps and kernel in/out maps,    *)
(* the geometry key derived by hash_vec, the cache population macros of    *)
(* the forward, transposed, global and backward entry points, and the      *)
(* life cycle of the scope and of its compute-library handles.             *)
(***************************************************************************)
EXTENDS Integers, Sequences, FiniteSets, TLC

(***************************************************************************)
(* 64-bit unsigned arithmetic.  A uint64_t is a tuple of 8 bytes, least    *)
(* significant first, so that products and sums stay inside the integers   *)
(* of the model checker while the arithmetic is exactly mod 2^64.          *)
(***************************************************************************)
RECURSIVE Bytes(_, _)
Bytes(x, n) == IF n = 0 THEN <<>> ELSE <<x % 256>> \o Bytes(x \div 256, n - 1)

\* Conversion of one Itype (int32_t) or bool element to uint64_t: the value
\* mod 2^64, i.e. sign extension for a negative element.
U64(x) ==
    IF x >= 0 THEN Bytes(x, 8)
    ELSE [i \in 1..8 |-> 255 - Bytes(-(x + 1), 8)[i]]

RECURSIVE XorBits(_, _, _)
XorBits(a, b, n) ==
    IF n = 0 THEN 0
    ELSE ((a + b) % 2) + 2 * XorBits(a \div 2, b \div 2, n - 1)

\* hash ^= x
Xor64(a, b) == [i \in 1..8 |-> XorBits(a[i], b[i], 8)]

\* Column i of the schoolbook product, before carries.
MulColumn(a, b, i) ==
    LET RECURSIVE Col(_)
        Col(j) == IF j = 0 THEN 0 ELSE a[j] * b[i + 1 - j] + Col(j - 1)
    IN Col(i)

RECURSIVE MulCarry(_, _, _, _)
MulCarry(a, b, i, carry) ==
    IF i > 8 THEN <<>>
    ELSE LET s == MulColumn(a, b, i) + carry
         IN <<s % 256>> \o MulCarry(a, b, i + 1, s \div 256)

\* hash *= prime, the high half of the product dropped (mod 2^64)
Mul64(a, b) == MulCarry(a, b, 1, 0)

\* UINT64_C(14695981039346656037) = 0xCBF29CE484222325
OffsetBasis == <<37, 35, 34, 132, 228, 156, 242, 203>>
\* UINT64_C(1099511628211) = 0x00000100000001B3
Prime == <<179, 1, 0, 0, 0, 1, 0, 0>>

\* The two statements of the loop body in the other order: the element
\* mixed in before the multiplication.
RECURSIVE HashFrom_XorFirst(_, _, _)
HashFrom_XorFirst(hash, p, i) ==
    IF i > Len(p) THEN hash
    ELSE HashFrom_XorFirst(Mul64(Xor64(hash, p[i]), Prime), p, i + 1)

RECURSIVE HashFrom(_, _, _)
HashFrom(hash, p, i) ==
    IF i > Len(p) THEN hash
    ELSE HashFrom(Xor64(Mul64(hash, Prime), p[i]), p, i + 1)

\* hash_vec over a tuple whose elements are already 64-bit values
\* (InOutKey is std::array<uint64_t, 5>).
hash_vec64(p) == HashFrom(OffsetBasis, p, 1)

\* hash_vec over a tuple of Itype elements (Arr, Coord): `uint64_t x : p'
\* converts each element on the way in.
hash_vec(p) == hash_vec64([i \in 1..Len(p) |-> U64(p[i])])

\* CoordHash<D, Itype>::operator()
CoordHash(p) == hash_vec(p)

\* InOutKeyHash::operator()
InOutKeyHash(p) == hash_vec64(p)

(***************************************************************************)
(* Types and inputs.                                                       *)
(***************************************************************************)
\* template <uint8_t D, ...>: the spatial dimension all entry points share.
D == 1

\* std::numeric_limits<Itype>::max() for Itype = int32_t
ItypeMax == 2147483647

NULL == 0
FAILURE == -1
SUCCESS == 1

HYPERCUBE == 0
CUSTOM == 2

\* Largest spatial position of the registered input coordinates.
MaxPos == 3

\* Arr<D, Itype> values the callers pass.  Coordinates are registered at the
\* finest resolution; the coarser ones are generated by strided requests.
InitPixelDistInputs == {<<1>>}
PixelDistInputs == {<<1>>, <<2>>}
StrideInputs == {<<2>>}
KernelSizeInputs == {<<2>>}
DilationInputs == {<<1>>}

\* Region descriptors (region_type, p_offset, n_offset) the callers pass.
RegionInputs ==
    { [region_type |-> HYPERCUBE, p_offset |-> <<>>, n_offset |-> 0],
      [region_type |-> CUSTOM, p_offset |-> << <<1>> >>, n_offset |-> 1] }

\* Coordinate batches the callers register: Coord<D, Itype> rows, the batch
\* index last.  The second batch repeats a row and has two batch indices.
CoordInputs ==
    { [i \in 1..(MaxPos + 1) |-> <<i - 1, 0>>],
      << <<0, 0>>, <<1, 0>>, <<0, 0>>, <<2, 1>> >> }

\* Longest batch and largest position of the batches enumerated for the
\* registration entry points.
MaxRows == 2
MaxCoord == 2

\* Coord<D, Itype> values: positions on both sides of zero, two batch
\* indices.
CoordValues == {<<x, b>> : x \in (-1)..MaxCoord, b \in 0..1}

\* Every batch of at most MaxRows rows, the positions 0..5 of batch 0, and
\* a batch of three rows whose last row repeats the first.
BatchInputs ==
    UNION {[1..n -> CoordValues] : n \in 1..MaxRows}
    \cup {[i \in 1..6 |-> <<i - 1, 0>>], << <<0, 0>>, <<1, 0>>, <<0, 0>> >>}

(***************************************************************************)
(* Finite maps (std::map, std::unordered_map, dense_hash_map).             *)
(***************************************************************************)
EmptyMap == [x \in {} |-> NULL]

Find(m, k) == k \in DOMAIN m

Put(m, k, v) == [x \in (DOMAIN m) \cup {k} |-> IF x = k THEN v ELSE m[x]]

(***************************************************************************)
(* CoordIndexMap.                                                          *)
(***************************************************************************)
\* The empty key set to std::numeric_limits<Itype>::lowest().
NewCoordIndexMap_Lowest ==
    [map |-> EmptyMap, empty_key |-> [i \in 1..(D + 1) |-> -ItypeMax - 1]]

\* CoordIndexMap(): map.set_empty_key(empty_key)
NewCoordIndexMap ==
    [map |-> EmptyMap, empty_key |-> [i \in 1..(D + 1) |-> -ItypeMax]]

Size(cm) == Cardinality(DOMAIN cm.map)

\* insert(coordinate): the existing index, or the next sequential one.
Insert(cm, c) ==
    IF Find(cm.map, c) THEN cm
    ELSE [cm EXCEPT !.map = Put(cm.map, c, Size(cm))]

RECURSIVE InsertBatch(_, _, _)
InsertBatch(cm, coords, i) ==
    IF i > Len(coords) THEN cm
    ELSE InsertBatch(Insert(cm, coords[i]), coords, i + 1)

\* The keys of a map in row (insertion) order.
RECURSIVE RowsOf(_, _)
RowsOf(map, left) ==
    IF left = {} THEN <<>>
    ELSE LET c == CHOOSE x \in left : \A y \in left : map[x] <= map[y]
         IN <<c>> \o RowsOf(map, left \ {c})

Rows(cm) == RowsOf(cm.map, DOMAIN cm.map)

(***************************************************************************)
(* Output coordinate generators and in/out map builders.  The macros call  *)
(* them with the arguments shown; their bodies follow sections 4.3 and 4.4 *)
(* of the design.                                                          *)
(***************************************************************************)
\* ToArray<D, Itype>(p): the D elements behind the pointer, as an Arr.
ToArray(p) == [i \in 1..D |-> p[i]]

\* Arr<D, Itype>(): value-initialised, all zero.
ZeroArr == [i \in 1..D |-> 0]

ComputeOutPixelDist(pixel_dists, strides, is_transpose) ==
    [i \in 1..D |-> IF is_transpose THEN pixel_dists[i] \div strides[i]
                    ELSE pixel_dists[i] * strides[i]]

\* Strided generator: every input row rounded down to the output grid
\* (batch component unchanged), inserted with duplicate collapsing.
CreateOutputCoordIndexMap(in_map, pixel_dists, strides) ==
    LET res == [i \in 1..D |-> pixel_dists[i] * strides[i]]
        rows == Rows(in_map)
        cell(c) == [i \in 1..(D + 1) |->
                       IF i <= D THEN (c[i] \div res[i]) * res[i] ELSE c[i]]
    IN InsertBatch(NewCoordIndexMap, [i \in 1..Len(rows) |-> cell(rows[i])], 1)

\* The origin coordinate of a batch index.
OriginCoord(b) == [i \in 1..(D + 1) |-> IF i <= D THEN -ItypeMax ELSE b]

\* Origin generator: one row per batch index of the input rows (batch_size 0:
\* the batch indices are taken from the input).
CreateOutputOriginCoordIndexMap(in_map, batch_size) ==
    LET rows == Rows(in_map)
    IN InsertBatch(NewCoordIndexMap,
                   [i \in 1..Len(rows) |-> OriginCoord(rows[i][D + 1])], 1)

\* Kernel offsets of a hypercube, row-major over the kernel-size tuple.
RECURSIVE RowMajor(_)
RowMajor(ks) ==
    IF Len(ks) = 0 THEN << <<>> >>
    ELSE LET rest == RowMajor(Tail(ks))
             n == Len(rest)
         IN [j \in 1..(ks[1] * n) |->
                <<(j - 1) \div n>> \o rest[((j - 1) % n) + 1]]

KernelOffsets(kernel_size, region_type, p_offset, n_offset) ==
    IF region_type = CUSTOM THEN [k \in 1..n_offset |-> p_offset[k]]
    ELSE RowMajor(kernel_size)

\* c shifted by sign * o * dilation * spacing in the spatial components.
Shift(c, o, dilations, spacing, sign) ==
    [i \in 1..(D + 1) |->
        IF i <= D THEN c[i] + sign * o[i] * dilations[i] * spacing[i] ELSE c[i]]

\* For each kernel offset, the (input row, output row) pairs: an input
\* coordinate pairs with the output cell its offset candidate falls on.
CreateInOutPerKernel(in_map, out_map, pixel_dists, kernel_size, dilations, region_type, p_offset, n_offset) ==
    LET offs == KernelOffsets(kernel_size, region_type, p_offset, n_offset)
        rows == Rows(in_map)
        cand(c, k) == Shift(c, offs[k], dilations, pixel_dists, 1)
        src(k) == SelectSeq(rows, LAMBDA c : Find(out_map.map, cand(c, k)))
    IN << [k \in 1..Len(offs) |->
              [i \in 1..Len(src(k)) |-> in_map.map[src(k)[i]]]],
          [k \in 1..Len(offs) |->
              [i \in 1..Len(src(k)) |-> out_map.map[cand(src(k)[i], k)]]] >>

\* Transposed builder: the roles reversed, the finer output map is walked
\* and the coarser input map is looked up with the inverse offset.
CreateInOutPerKernelTranspose(in_map, out_map, out_pixel_dists, kernel_size, dilations, region_type, p_offset, n_offset) ==
    LET offs == KernelOffsets(kernel_size, region_type, p_offset, n_offset)
        rows == Rows(out_map)
        cand(c, k) == Shift(c, offs[k], dilations, out_pixel_dists, -1)
        src(k) == SelectSeq(rows, LAMBDA c : Find(in_map.map, cand(c, k)))
    IN << [k \in 1..Len(offs) |->
              [i \in 1..Len(src(k)) |-> in_map.map[cand(src(k)[i], k)]]],
          [k \in 1..Len(offs) |->
              [i \in 1..Len(src(k)) |-> out_map.map[src(k)[i]]]] >>

\* Global reduction: one implicit offset, every input row paired with the
\* output row of its batch index.
CreateGlobalReductionInOutMap(in_map, out_map) ==
    LET rows == Rows(in_map)
        src == SelectSeq(rows, LAMBDA c : Find(out_map.map, OriginCoord(c[D + 1])))
    IN << << [i \in 1..Len(src) |-> in_map.map[src[i]]] >>,
          << [i \in 1..Len(src) |-> out_map.map[OriginCoord(src[i][D + 1])]] >> >>

(***************************************************************************)
(* Metadata and the macros of the entry points.                            *)
(***************************************************************************)
\* Metadata(): both handles NULL, the three stores empty.
NewMetadata ==
    [coord2inds |-> EmptyMap, in_maps |-> EmptyMap, out_maps |-> EmptyMap,
     cuhandle |-> NULL, cushandle |-> NULL]

\* coord2inds.clear() left out.
Clear_KeepsCoords(o) == [o EXCEPT !.in_maps = EmptyMap, !.out_maps = EmptyMap]

\* The scope reset by assigning a fresh Metadata: the handles are dropped
\* with the maps and created again by the next access.
Clear_ResetsHandles(o) == NewMetadata

\* Metadata::clear()
Clear(o) ==
    [o EXCEPT !.coord2inds = EmptyMap, !.in_maps = EmptyMap,
              !.out_maps = EmptyMap]

\* ~Metadata(): the arguments of cublasDestroy and cusparseDestroy, in order.
Destructor(o) ==
    << [lib |-> "cublas", handle |-> o.cuhandle],
       [lib |-> "cusparse", handle |-> o.cushandle] >>

\* m after m[k] was evaluated: std::map and std::unordered_map insert a
\* value-initialised element when the key is absent.
Subscript(m, k, dflt) == IF Find(m, k) THEN m ELSE Put(m, k, dflt)

\* Outcomes of the two handle creations of a first access.
CreateOutcomes == {"ok", "cublas_fails", "cusparse_fails"}

\* INITIALIZE_AND_REFERENCE(VAR, RETURN_VAR).  slot is VAR[0], o the object it
\* points to, made the handles created so far per library.  A failed
\* CUBLAS_CHECK or CUSPARSE_CHECK abandons the entry point (ok = FALSE).
InitializeAndReference(slot, o, made, outcome) ==
    LET slot1 == IF slot = NULL THEN 1 ELSE slot
        o1 == IF slot = NULL THEN NewMetadata ELSE o
    IN IF o1.cuhandle # NULL
       THEN [metadata |-> slot1, obj |-> o1, created |-> made, ok |-> TRUE]
       ELSE IF outcome = "cublas_fails"
       THEN [metadata |-> slot1, obj |-> o1, created |-> made, ok |-> FALSE]
       ELSE LET o2 == [o1 EXCEPT !.cuhandle = made.cublas + 1]
                m2 == [made EXCEPT !.cublas = @ + 1]
            IN IF outcome = "cusparse_fails"
               THEN [metadata |-> slot1, obj |-> o2, created |-> m2,
                     ok |-> FALSE]
               ELSE [metadata |-> slot1,
                     obj |-> [o2 EXCEPT !.cushandle = made.cusparse + 1],
                     created |-> [m2 EXCEPT !.cusparse = @ + 1],
                     ok |-> TRUE]

\* The hashes of the Arr values of the model, computed once.
ArrValues == {<<n>> : n \in 0..4}
ArrHashTable == [p \in ArrValues |-> hash_vec(p)]

\* ArrHash<D, Itype>::operator()
ArrHash(p) == IF p \in ArrValues THEN ArrHashTable[p] ELSE hash_vec(p)

\* The region type hashed into the key together with the kernel size.
DefaultVarsAndHashes_RegionInKey(req, IS_TRANSPOSE) ==
    LET pixel_dists == ToArray(req.p_pixel_dist)
        strides == ToArray(req.p_stride)
        kernel_size == ToArray(req.p_kernel_size)
        dilations == ToArray(req.p_dilation)
        region == IF "region_type" \in DOMAIN req THEN req.region_type
                  ELSE HYPERCUBE
        out_pixel_dists == ComputeOutPixelDist(pixel_dists, strides, IS_TRANSPOSE)
    IN [pixel_dists |-> pixel_dists, strides |-> strides,
        kernel_size |-> kernel_size, dilations |-> dilations,
        pixel_dist_hash |-> ArrHash(pixel_dists),
        out_pixel_dists |-> out_pixel_dists,
        out_pixel_dist_hash |-> ArrHash(out_pixel_dists),
        key |-> <<ArrHash(pixel_dists), ArrHash(strides),
                  hash_vec(kernel_size \o <<region>>),
                  ArrHash(dilations), U64(IF IS_TRANSPOSE THEN 1 ELSE 0)>>]

\* IS_TRANSPOSE left out of the key.
DefaultVarsAndHashes_NoTransposeInKey(req, IS_TRANSPOSE) ==
    LET pixel_dists == ToArray(req.p_pixel_dist)
        strides == ToArray(req.p_stride)
        kernel_size == ToArray(req.p_kernel_size)
        dilations == ToArray(req.p_dilation)
        out_pixel_dists == ComputeOutPixelDist(pixel_dists, strides, IS_TRANSPOSE)
    IN [pixel_dists |-> pixel_dists, strides |-> strides,
        kernel_size |-> kernel_size, dilations |-> dilations,
        pixel_dist_hash |-> ArrHash(pixel_dists),
        out_pixel_dists |-> out_pixel_dists,
        out_pixel_dist_hash |-> ArrHash(out_pixel_dists),
        key |-> <<ArrHash(pixel_dists), ArrHash(strides), ArrHash(kernel_size),
                  ArrHash(dilations), U64(0)>>]

\* INITIALIZE_DEFAULT_VARS_AND_HASHES(IS_TRANSPOSE)
DefaultVarsAndHashes(req, IS_TRANSPOSE) ==
    LET pixel_dists == ToArray(req.p_pixel_dist)
        strides == ToArray(req.p_stride)
        kernel_size == ToArray(req.p_kernel_size)
        dilations == ToArray(req.p_dilation)
        out_pixel_dists == ComputeOutPixelDist(pixel_dists, strides, IS_TRANSPOSE)
    IN [pixel_dists |-> pixel_dists, strides |-> strides,
        kernel_size |-> kernel_size, dilations |-> dilations,
        pixel_dist_hash |-> ArrHash(pixel_dists),
        out_pixel_dists |-> out_pixel_dists,
        out_pixel_dist_hash |-> ArrHash(out_pixel_dists),
        key |-> <<ArrHash(pixel_dists), ArrHash(strides), ArrHash(kernel_size),
                  ArrHash(dilations), U64(IF IS_TRANSPOSE THEN 1 ELSE 0)>>]

\* INITIALIZE_DEFAULT_GLOBAL_VARS_AND_HASHES
DefaultGlobalVarsAndHashes(req) ==
    LET pixel_dists == ToArray(req.p_pixel_dist)
    IN [pixel_dists |-> pixel_dists,
        pixel_dist_hash |-> ArrHash(pixel_dists),
        out_pixel_dists |-> ZeroArr,
        out_pixel_dist_hash |-> ArrHash(ZeroArr),
        key |-> <<ArrHash(pixel_dists), ArrHash(ZeroArr), ArrHash(ZeroArr),
                  ArrHash(ZeroArr), U64(0)>>]

\* The test of the input resolution left out.
InCoordsMissing_Never(o, v) == FALSE

\* p_coord2inds->find(pixel_dist_hash) == p_coord2inds->end()
InCoordsMissing(o, v) == ~Find(o.coord2inds, v.pixel_dist_hash)

\* p_coord2inds->find(out_pixel_dist_hash) == p_coord2inds->end()
OutCoordsMissing(o, v) == ~Find(o.coord2inds, v.out_pixel_dist_hash)

\* The existence test left out: the builder runs on every request.
InOutMissing_Always(o, v) == TRUE

\* p_in_maps->find(key) == p_in_maps->end()
InOutMissing(o, v) == ~Find(o.in_maps, v.key)

\* The second assignment left out: out_maps gets no entry.
StoreInOut_InOnly(o, key, t) == [o EXCEPT !.in_maps = Put(@, key, t[1])]

\* (*p_in_maps)[key] = std::get<0>(t); (*p_out_maps)[key] = std::get<1>(t);
StoreInOut(o, key, t) ==
    [o EXCEPT !.in_maps = Put(@, key, t[1]), !.out_maps = Put(@, key, t[2])]

\* (*p_coord2inds)[pixel_dist_hash] and (*p_coord2inds)[out_pixel_dist_hash]
\* evaluated as arguments of a builder.
BuilderArgs(o, v) ==
    [o EXCEPT !.coord2inds =
        Subscript(Subscript(@, v.pixel_dist_hash, NewCoordIndexMap),
                  v.out_pixel_dist_hash, NewCoordIndexMap)]

\* The transposed branch generating its output coordinates when they are
\* missing, as the non-transposed branch does.
TransposeBranch_Generates(o, v, req) ==
    LET c == Subscript(o.coord2inds, v.pixel_dist_hash, NewCoordIndexMap)
        o1 == IF OutCoordsMissing(o, v)
              THEN [o EXCEPT !.coord2inds =
                       Put(c, v.out_pixel_dist_hash,
                           CreateOutputCoordIndexMap(
                               c[v.pixel_dist_hash], v.pixel_dists,
                               [i \in 1..D |-> 1]))]
              ELSE o
    IN IF InOutMissing(o1, v)
       THEN LET t == CreateInOutPerKernelTranspose(
                         o1.coord2inds[v.pixel_dist_hash],
                         o1.coord2inds[v.out_pixel_dist_hash],
                         v.out_pixel_dists, v.kernel_size, v.dilations,
                         req.region_type, req.p_offset, req.n_offset)
            IN [ret |-> NULL, obj |-> StoreInOut(o1, v.key, t),
                built |-> {v.key}]
       ELSE [ret |-> NULL, obj |-> o1, built |-> {}]

\* The output coordinates tested with (*p_coord2inds)[out_pixel_dist_hash]
\* .size() == 0 instead of find: the subscript inserts an empty map.
TransposeBranch_SubscriptTest(o, v, req) ==
    LET o1 == [o EXCEPT !.coord2inds =
                  Subscript(@, v.out_pixel_dist_hash, NewCoordIndexMap)]
    IN IF Size(o1.coord2inds[v.out_pixel_dist_hash]) = 0
       THEN [ret |-> FAILURE, obj |-> o1, built |-> {}]
       ELSE IF InOutMissing(o1, v)
       THEN LET t == CreateInOutPerKernelTranspose(
                         o1.coord2inds[v.pixel_dist_hash],
                         o1.coord2inds[v.out_pixel_dist_hash],
                         v.out_pixel_dists, v.kernel_size, v.dilations,
                         req.region_type, req.p_offset, req.n_offset)
            IN [ret |-> NULL, obj |-> StoreInOut(o1, v.key, t),
                built |-> {v.key}]
       ELSE [ret |-> NULL, obj |-> o1, built |-> {}]

\* The transposed branch of INITIALIZE_OUT_COORDS_AND_KERNEL_MAP.  built is
\* the set of keys the builder ran for during the call.
TransposeBranch(o, v, req) ==
    IF OutCoordsMissing(o, v)
    THEN [ret |-> FAILURE, obj |-> o, built |-> {}]
    ELSE IF InOutMissing(o, v)
    THEN LET a == BuilderArgs(o, v)
             t == CreateInOutPerKernelTranspose(
                      a.coord2inds[v.pixel_dist_hash],
                      a.coord2inds[v.out_pixel_dist_hash], v.out_pixel_dists,
                      v.kernel_size, v.dilations, req.region_type,
                      req.p_offset, req.n_offset)
         IN [ret |-> NULL, obj |-> StoreInOut(a, v.key, t), built |-> {v.key}]
    ELSE [ret |-> NULL, obj |-> o, built |-> {}]

\* The generator called with the output resolution in place of the input
\* resolution.
StridedOutCoords_CoarseArgs(o, v) ==
    IF OutCoordsMissing(o, v)
    THEN LET c == Subscript(o.coord2inds, v.pixel_dist_hash, NewCoordIndexMap)
         IN [o EXCEPT !.coord2inds =
                Put(c, v.out_pixel_dist_hash,
                    CreateOutputCoordIndexMap(c[v.pixel_dist_hash],
                                              v.out_pixel_dists, v.strides))]
    ELSE o

\* The find test left out: the generator runs on every request.
StridedOutCoords_Regenerates(o, v) ==
    LET c == Subscript(o.coord2inds, v.pixel_dist_hash, NewCoordIndexMap)
    IN [o EXCEPT !.coord2inds =
           Put(c, v.out_pixel_dist_hash,
               CreateOutputCoordIndexMap(c[v.pixel_dist_hash],
                                         v.pixel_dists, v.strides))]

\* if (find(out_pixel_dist_hash) == end) (*p_coord2inds)[out_pixel_dist_hash]
\*     = CreateOutputCoordIndexMap((*p_coord2inds)[pixel_dist_hash], ...)
StridedOutCoords(o, v) ==
    IF OutCoordsMissing(o, v)
    THEN LET c == Subscript(o.coord2inds, v.pixel_dist_hash, NewCoordIndexMap)
         IN [o EXCEPT !.coord2inds =
                Put(c, v.out_pixel_dist_hash,
                    CreateOutputCoordIndexMap(c[v.pixel_dist_hash],
                                              v.pixel_dists, v.strides))]
    ELSE o

\* The non-transposed branch of INITIALIZE_OUT_COORDS_AND_KERNEL_MAP.
ForwardBranch(o, v, req) ==
    LET o1 == StridedOutCoords(o, v)
    IN IF InOutMissing(o1, v)
       THEN LET a == BuilderArgs(o1, v)
                t == CreateInOutPerKernel(
                         a.coord2inds[v.pixel_dist_hash],
                         a.coord2inds[v.out_pixel_dist_hash], v.pixel_dists,
                         v.kernel_size, v.dilations, req.region_type,
                         req.p_offset, req.n_offset)
            IN [ret |-> NULL, obj |-> StoreInOut(a, v.key, t),
                built |-> {v.key}]
       ELSE [ret |-> NULL, obj |-> o1, built |-> {}]

\* INITIALIZE_OUT_COORDS_AND_KERNEL_MAP(IS_TRANSPOSE).  ret is FAILURE when
\* the macro returns -1 and NULL when control runs past its end.
OutCoordsAndKernelMap(o, v, req, IS_TRANSPOSE) ==
    IF InCoordsMissing(o, v)
    THEN [ret |-> FAILURE, obj |-> o, built |-> {}]
    ELSE IF IS_TRANSPOSE THEN TransposeBranch(o, v, req)
    ELSE ForwardBranch(o, v, req)

\* if (find(out_pixel_dist_hash) == end) (*p_coord2inds)[out_pixel_dist_hash]
\*     = CreateOutputOriginCoordIndexMap((*p_coord2inds)[pixel_dist_hash], 0)
OriginOutCoords(o, v) ==
    IF OutCoordsMissing(o, v)
    THEN LET c == Subscript(o.coord2inds, v.pixel_dist_hash, NewCoordIndexMap)
         IN [o EXCEPT !.coord2inds =
                Put(c, v.out_pixel_dist_hash,
                    CreateOutputOriginCoordIndexMap(c[v.pixel_dist_hash], 0))]
    ELSE o

\* INITIALIZE_GLOBAL_OUT_COORDS_AND_KERNEL_MAP
GlobalOutCoordsAndKernelMap(o, v) ==
    IF InCoordsMissing(o, v)
    THEN [ret |-> FAILURE, obj |-> o, built |-> {}]
    ELSE LET o1 == OriginOutCoords(o, v)
         IN IF InOutMissing(o1, v)
            THEN LET a == BuilderArgs(o1, v)
                     t == CreateGlobalReductionInOutMap(
                              a.coord2inds[v.pixel_dist_hash],
                              a.coord2inds[v.out_pixel_dist_hash])
                 IN [ret |-> NULL, obj |-> StoreInOut(a, v.key, t),
                     built |-> {v.key}]
            ELSE [ret |-> NULL, obj |-> o1, built |-> {}]

\* The test of the in/out map left out.
BackwardPropCheck_NoMapTest(o, v) ==
    IF InCoordsMissing(o, v) THEN [ret |-> FAILURE, obj |-> o]
    ELSE IF OutCoordsMissing(o, v) THEN [ret |-> FAILURE, obj |-> o]
    ELSE [ret |-> NULL, obj |-> o]

\* The in/out map tested with (*p_in_maps)[key].size() == 0 instead of
\* find: the subscript inserts an empty entry.
BackwardPropCheck_SubscriptTest(o, v) ==
    IF InCoordsMissing(o, v) THEN [ret |-> FAILURE, obj |-> o]
    ELSE IF OutCoordsMissing(o, v) THEN [ret |-> FAILURE, obj |-> o]
    ELSE LET o1 == [o EXCEPT !.in_maps = Subscript(@, v.key, <<>>)]
         IN IF Len(o1.in_maps[v.key]) = 0
            THEN [ret |-> FAILURE, obj |-> o1]
            ELSE [ret |-> NULL, obj |-> o1]

\* A missing in/out map reported by a code of its own.
BackwardPropCheck_MapCode(o, v) ==
    IF InCoordsMissing(o, v) THEN [ret |-> FAILURE, obj |-> o]
    ELSE IF OutCoordsMissing(o, v) THEN [ret |-> FAILURE, obj |-> o]
    ELSE IF InOutMissing(o, v) THEN [ret |-> FAILURE - 1, obj |-> o]
    ELSE [ret |-> NULL, obj |-> o]

\* BACKWARD_PROP_CHECK
BackwardPropCheck(o, v) ==
    IF InCoordsMissing(o, v) THEN [ret |-> FAILURE, obj |-> o]
    ELSE IF OutCoordsMissing(o, v) THEN [ret |-> FAILURE, obj |-> o]
    ELSE IF InOutMissing(o, v) THEN [ret |-> FAILURE, obj |-> o]
    ELSE [ret |-> NULL, obj |-> o]

(***************************************************************************)
(* Entry point bodies that precede or replace the macros.                  *)
(***************************************************************************)
\* t_initialize_coords: registers a batch at a resolution, duplicates
\* collapsed; a resolution is registered once.
InitializeCoords(o, coords, p_pixel_dist) ==
    LET h == ArrHash(ToArray(p_pixel_dist))
    IN IF Find(o.coord2inds, h) THEN [ret |-> FAILURE, obj |-> o]
       ELSE [ret |-> SUCCESS,
             obj |-> [o EXCEPT !.coord2inds =
                         Put(@, h, InsertBatch(NewCoordIndexMap, coords, 1))]]

\* Row i of a batch registered with its own fresh index: map[c] = i.
RECURSIVE InsertRows(_, _, _)
InsertRows(cm, coords, i) ==
    IF i > Len(coords) THEN cm
    ELSE InsertRows([cm EXCEPT !.map = Put(cm.map, coords[i], i - 1)],
                    coords, i + 1)

\* t_initialize_coords_with_duplicates: registers a batch at a resolution,
\* every row with a fresh index.
InitializeCoordsWithDuplicates(o, coords, p_pixel_dist) ==
    LET h == ArrHash(ToArray(p_pixel_dist))
    IN IF Find(o.coord2inds, h) THEN [ret |-> FAILURE, obj |-> o]
       ELSE [ret |-> SUCCESS,
             obj |-> [o EXCEPT !.coord2inds =
                         Put(@, h, InsertRows(NewCoordIndexMap, coords, 1))]]

\* t_get_num_coords: the row count of a registered resolution.
GetNumCoords(o, p_pixel_dist) ==
    LET h == ArrHash(ToArray(p_pixel_dist))
    IN IF ~Find(o.coord2inds, h) THEN [ret |-> FAILURE, nrows |-> 0]
       ELSE [ret |-> SUCCESS, nrows |-> Size(o.coord2inds[h])]

\* ASSERT_EQ(A, B): FAILURE when the macro returns -1, NULL when control
\* runs past it.
AssertEq(A, B) == IF A # B THEN FAILURE ELSE NULL

\* The row indices of a batch of coordinates; -1 for a coordinate that has
\* no row.
IndexMapOf(m, coords) ==
    [i \in 1..Len(coords) |->
        IF Find(m.map, coords[i]) THEN m.map[coords[i]] ELSE -1]

\* t_get_index_map: the row index of every coordinate of a batch, written
\* to a buffer of index_map_nrows rows.
GetIndexMap(o, coords, index_map_nrows, p_pixel_dist) ==
    LET h == ArrHash(ToArray(p_pixel_dist))
    IN IF ~Find(o.coord2inds, h)
       THEN [ret |-> FAILURE, note |-> "no_in_coords", index_map |-> <<>>]
       ELSE IF AssertEq(Len(coords), index_map_nrows) = FAILURE
       THEN [ret |-> FAILURE, note |-> "assert", index_map |-> <<>>]
       ELSE [ret |-> SUCCESS, note |-> "none",
             index_map |-> IndexMapOf(o.coord2inds[h], coords)]

(***************************************************************************)
(* State.                                                                  *)
(***************************************************************************)
VARIABLES
    metadata,    \* the handle slot VAR[0]: NULL or the address of the scope
    obj,         \* the Metadata object behind the slot
    released,    \* the scope handle was released (the object deleted)
    created,     \* handles created so far, per library
    destroyed,   \* the destroy calls made so far, in order
    nbuilt,      \* per geometry key, the builder runs since the last clear
    built_with,  \* per cached key, the region descriptor it was built with
    last         \* the entry point that ran last, what it returned and why

vars == <<metadata, obj, released, created, destroyed, nbuilt, built_with, last>>

coord2inds == obj.coord2inds
in_maps == obj.in_maps
out_maps == obj.out_maps
cuhandle == obj.cuhandle
cushandle == obj.cushandle

GeomInputs ==
    [p_pixel_dist : PixelDistInputs, p_stride : StrideInputs,
     p_kernel_size : KernelSizeInputs, p_dilation : DilationInputs]

Requests ==
    { [p_pixel_dist |-> g.p_pixel_dist, p_stride |-> g.p_stride,
       p_kernel_size |-> g.p_kernel_size, p_dilation |-> g.p_dilation,
       region_type |-> r.region_type, p_offset |-> r.p_offset,
       n_offset |-> r.n_offset] : g \in GeomInputs, r \in RegionInputs }

GlobalRequests == [p_pixel_dist : PixelDistInputs]

RegionOf(req) ==
    [region_type |-> req.region_type, p_offset |-> req.p_offset,
     n_offset |-> req.n_offset]

Init ==
    /\ metadata = NULL
    /\ obj = NewMetadata
    /\ released = FALSE
    /\ created = [cublas |-> 0, cusparse |-> 0]
    /\ destroyed = <<>>
    /\ nbuilt = EmptyMap
    /\ built_with = EmptyMap
    /\ last = [op |-> "none", ret |-> NULL, note |-> "none"]

\* The first lines of every entry point.  A creation outcome is drawn only
\* when the access creates the handles.
Enter(outcome) == InitializeAndReference(metadata, obj, created, outcome)

Creates == metadata = NULL \/ obj.cuhandle = NULL

CanEnter(outcome) == ~released /\ (Creates \/ outcome = "ok")

\* The entry point was abandoned by a failed handle creation.
Abandon(e, op) ==
    /\ metadata' = e.metadata
    /\ obj' = e.obj
    /\ created' = e.created
    /\ last' = [op |-> op, ret |-> NULL, note |-> "none"]
    /\ UNCHANGED <<released, destroyed, nbuilt, built_with>>

Count(k) == IF Find(nbuilt, k) THEN nbuilt[k] ELSE 0

\* The test that made a macro return -1.
WhyFailed(o, v) ==
    IF ~Find(o.coord2inds, v.pixel_dist_hash) THEN "no_in_coords"
    ELSE IF ~Find(o.coord2inds, v.out_pixel_dist_hash) THEN "no_out_coords"
    ELSE "no_map"

\* The effect of a mapping macro on the state.
Mapped(e, r, v, op, region) ==
    /\ metadata' = e.metadata
    /\ obj' = r.obj
    /\ created' = e.created
    /\ nbuilt' = [k \in (DOMAIN nbuilt) \cup r.built |->
                     IF k \in r.built THEN Count(k) + 1 ELSE nbuilt[k]]
    /\ built_with' = [k \in (DOMAIN built_with) \cup r.built |->
                         IF k \in r.built THEN region ELSE built_with[k]]
    /\ last' = [op |-> op,
                ret |-> IF r.ret = FAILURE THEN FAILURE ELSE SUCCESS,
                note |-> IF r.ret = FAILURE THEN WhyFailed(e.obj, v)
                         ELSE IF ~Find(e.obj.in_maps, v.key) THEN "miss"
                         ELSE IF Find(built_with, v.key)
                                 /\ built_with[v.key] # region
                         THEN "hit_other_region"
                         ELSE "hit"]
    /\ UNCHANGED <<released, destroyed>>

\* t_initialize_coords
InitCoords(coords, p_pixel_dist, outcome) ==
    /\ CanEnter(outcome)
    /\ LET e == Enter(outcome)
       IN IF ~e.ok THEN Abandon(e, "initialize_coords")
          ELSE LET r == InitializeCoords(e.obj, coords, p_pixel_dist)
               IN /\ metadata' = e.metadata
                  /\ obj' = r.obj
                  /\ created' = e.created
                  /\ last' = [op |-> "initialize_coords", ret |-> r.ret,
                              note |-> "none"]
                  /\ UNCHANGED <<released, destroyed, nbuilt, built_with>>

\* t_get_num_coords
NumCoords(p_pixel_dist, outcome) ==
    /\ CanEnter(outcome)
    /\ LET e == Enter(outcome)
       IN IF ~e.ok THEN Abandon(e, "get_num_coords")
          ELSE LET r == GetNumCoords(e.obj, p_pixel_dist)
               IN /\ metadata' = e.metadata
                  /\ obj' = e.obj
                  /\ created' = e.created
                  /\ last' = [op |-> "get_num_coords", ret |-> r.ret,
                              note |-> IF r.ret = FAILURE /\ last.op = "clear"
                                          /\ last.note = "dropped"
                                       THEN "after_clear" ELSE "none"]
                  /\ UNCHANGED <<released, destroyed, nbuilt, built_with>>

\* Buffer sizes a caller passes with a batch of coordinates.
RowCountInputs == {0} \cup {Len(c) : c \in CoordInputs}

\* t_get_index_map
IndexMap(coords, index_map_nrows, p_pixel_dist, outcome) ==
    /\ CanEnter(outcome)
    /\ LET e == Enter(outcome)
       IN IF ~e.ok THEN Abandon(e, "get_index_map")
          ELSE LET r == GetIndexMap(e.obj, coords, index_map_nrows,
                                    p_pixel_dist)
               IN /\ metadata' = e.metadata
                  /\ obj' = e.obj
                  /\ created' = e.created
                  /\ last' = [op |-> "get_index_map", ret |-> r.ret,
                              note |-> r.note]
                  /\ UNCHANGED <<released, destroyed, nbuilt, built_with>>

\* The forward entry points (t_conv_fw, t_max_pooling_fw, ...):
\* INITIALIZE_AND_REFERENCE, INITIALIZE_DEFAULT_VARS_AND_HASHES(false),
\* INITIALIZE_OUT_COORDS_AND_KERNEL_MAP(false).
ConvForward(req, outcome) ==
    /\ CanEnter(outcome)
    /\ LET e == Enter(outcome)
       IN IF ~e.ok THEN Abandon(e, "conv_fw")
          ELSE LET v == DefaultVarsAndHashes(req, FALSE)
                   r == OutCoordsAndKernelMap(e.obj, v, req, FALSE)
               IN Mapped(e, r, v, "conv_fw", RegionOf(req))

\* The transposed forward entry points (t_conv_tr_fw, ...).
ConvTransposeForward(req, outcome) ==
    /\ CanEnter(outcome)
    /\ LET e == Enter(outcome)
       IN IF ~e.ok THEN Abandon(e, "conv_tr_fw")
          ELSE LET v == DefaultVarsAndHashes(req, TRUE)
                   r == OutCoordsAndKernelMap(e.obj, v, req, TRUE)
               IN Mapped(e, r, v, "conv_tr_fw", RegionOf(req))

\* The global forward entry points (t_global_avg_pooling_fw, ...).
GlobalForward(req, outcome) ==
    /\ CanEnter(outcome)
    /\ LET e == Enter(outcome)
       IN IF ~e.ok THEN Abandon(e, "global_fw")
          ELSE LET v == DefaultGlobalVarsAndHashes(req)
                   r == GlobalOutCoordsAndKernelMap(e.obj, v)
               IN Mapped(e, r, v, "global_fw", [region_type |-> NULL])

\* The effect of a backward check on the state.
Checked(e, r, v, op) ==
    /\ metadata' = e.metadata
    /\ obj' = r.obj
    /\ created' = e.created
    /\ last' = [op |-> op,
                ret |-> IF r.ret = FAILURE THEN FAILURE ELSE SUCCESS,
                note |-> IF r.ret = FAILURE THEN WhyFailed(e.obj, v)
                         ELSE "passed"]
    /\ UNCHANGED <<released, destroyed, nbuilt, built_with>>

\* The backward entry points (t_conv_bw, t_conv_tr_bw, ...):
\* INITIALIZE_DEFAULT_VARS_AND_HASHES(IS_TRANSPOSE), BACKWARD_PROP_CHECK.
ConvBackward(req, IS_TRANSPOSE, outcome) ==
    /\ CanEnter(outcome)
    /\ LET e == Enter(outcome)
       IN IF ~e.ok THEN Abandon(e, "conv_bw")
          ELSE LET v == DefaultVarsAndHashes(req, IS_TRANSPOSE)
               IN Checked(e, BackwardPropCheck(e.obj, v), v,
                          IF IS_TRANSPOSE THEN "conv_tr_bw" ELSE "conv_bw")

\* The global backward entry points (t_global_avg_pooling_bw, ...).
GlobalBackward(req, outcome) ==
    /\ CanEnter(outcome)
    /\ LET e == Enter(outcome)
       IN IF ~e.ok THEN Abandon(e, "global_bw")
          ELSE LET v == DefaultGlobalVarsAndHashes(req)
               IN Checked(e, BackwardPropCheck(e.obj, v), v, "global_bw")

\* t_clear
ClearScope(outcome) ==
    /\ CanEnter(outcome)
    /\ LET e == Enter(outcome)
       IN IF ~e.ok THEN Abandon(e, "clear")
          ELSE /\ metadata' = e.metadata
               /\ obj' = Clear(e.obj)
               /\ created' = e.created
               /\ nbuilt' = EmptyMap
               /\ built_with' = EmptyMap
               /\ last' = [op |-> "clear", ret |-> NULL,
                           note |-> IF e.obj.coord2inds = EmptyMap
                                    THEN "none" ELSE "dropped"]
               /\ UNCHANGED <<released, destroyed>>

\* The scope handle is released: delete (Metadata *)VAR[0].  Deleting a null
\* pointer runs no destructor.  The slot keeps its value; the object is gone.
Release ==
    /\ ~released
    /\ released' = TRUE
    /\ destroyed' = IF metadata = NULL THEN destroyed
                    ELSE destroyed \o Destructor(obj)
    /\ obj' = NewMetadata
    /\ nbuilt' = EmptyMap
    /\ built_with' = EmptyMap
    /\ last' = [op |-> "release", ret |-> NULL, note |-> "none"]
    /\ UNCHANGED <<metadata, created>>

Next ==
    \/ \E c \in CoordInputs, p \in InitPixelDistInputs, x \in CreateOutcomes :
          InitCoords(c, p, x)
    \/ \E p \in PixelDistInputs, x \in CreateOutcomes : NumCoords(p, x)
    \/ \E c \in CoordInputs, n \in RowCountInputs, p \in PixelDistInputs,
          x \in CreateOutcomes : IndexMap(c, n, p, x)
    \/ \E req \in Requests, x \in CreateOutcomes : ConvForward(req, x)
    \/ \E req \in Requests, x \in CreateOutcomes : ConvTransposeForward(req, x)
    \/ \E req \in GlobalRequests, x \in CreateOutcomes : GlobalForward(req, x)
    \/ \E req \in GeomInputs, t \in BOOLEAN, x \in CreateOutcomes :
          ConvBackward(req, t, x)
    \/ \E req \in GlobalRequests, x \in CreateOutcomes : GlobalBackward(req, x)
    \/ \E x \in CreateOutcomes : ClearScope(x)
    \/ Release

Spec == Init /\ [][Next]_vars

(***************************************************************************)
(* Registration of batches.  A caller registers one batch on a scope that  *)
(* holds no coordinates, in either mode, and issues forward requests on    *)
(* it; the handles are created without failure.  `last' keeps the batch.   *)
(***************************************************************************)
Registered(r, op, coords) ==
    /\ obj' = r.obj
    /\ last' = [op |-> op, ret |-> r.ret, note |-> "none", coords |-> coords]
    /\ UNCHANGED <<released, destroyed, nbuilt, built_with>>

\* t_initialize_coords
Register(coords, p_pixel_dist) ==
    /\ CanEnter("ok") /\ obj.coord2inds = EmptyMap
    /\ LET e == Enter("ok")
       IN /\ metadata' = e.metadata
          /\ created' = e.created
          /\ Registered(InitializeCoords(e.obj, coords, p_pixel_dist),
                        "initialize_coords", coords)

\* t_initialize_coords_with_duplicates
RegisterWithDuplicates(coords, p_pixel_dist) ==
    /\ CanEnter("ok") /\ obj.coord2inds = EmptyMap
    /\ LET e == Enter("ok")
       IN /\ metadata' = e.metadata
          /\ created' = e.created
          /\ Registered(InitializeCoordsWithDuplicates(e.obj, coords,
                                                       p_pixel_dist),
                        "initialize_coords_with_duplicates", coords)

NextCoords ==
    \/ \E c \in BatchInputs, p \in InitPixelDistInputs : Register(c, p)
    \/ \E c \in BatchInputs, p \in InitPixelDistInputs :
          RegisterWithDuplicates(c, p)
    \/ \E req \in Requests : ConvForward(req, "ok")

SpecCoords == Init /\ [][NextCoords]_vars

(***************************************************************************)
(* Several scopes.  Each caller holds a slot of its own; `metadata' maps   *)
(* the slot of a scope to the address it holds and `obj' maps an address   *)
(* to the Metadata object allocated there.  `created' counts the handles   *)
(* the libraries have given out, to any scope.                             *)
(***************************************************************************)
NScopes == 2
Scopes == 1..NScopes

\* One process-wide instance handed to every slot.
Allocate_Shared(heap) == 1

\* new Metadata<D, Itype>: an address no allocated object has.
Allocate(heap) == Cardinality(DOMAIN heap) + 1

\* The test VAR[0] == NULL left out: every access allocates.
ReferenceIn_AlwaysAllocates(heap, slot, made, outcome) ==
    LET e == InitializeAndReference(NULL, NewMetadata, made, outcome)
    IN [metadata |-> Allocate(heap), obj |-> e.obj, created |-> e.created,
        ok |-> e.ok]

\* INITIALIZE_AND_REFERENCE(VAR, RETURN_VAR) on the slot of one scope.
ReferenceIn(heap, slot, made, outcome) ==
    LET addr == IF slot = NULL THEN Allocate(heap) ELSE slot
        e == InitializeAndReference(
                 slot, IF slot = NULL THEN NewMetadata ELSE heap[slot],
                 made, outcome)
    IN [metadata |-> addr, obj |-> e.obj, created |-> e.created, ok |-> e.ok]

\* Requests of the callers of the scopes: the registered resolution, the
\* hypercube region.  Handle creation succeeds here; its failures are the
\* subject of the single-scope specification.
ScopeRequests ==
    {req \in Requests : /\ req.p_pixel_dist \in InitPixelDistInputs
                        /\ req.region_type = HYPERCUBE}

ScopeGlobalRequests == [p_pixel_dist : InitPixelDistInputs]

ScopeOutcomes == {"ok"}

\* The batch every scope registers: two batch indices, one repeated row.
ScopeBatches == {<< <<0, 0>>, <<1, 0>>, <<0, 0>>, <<2, 1>> >>}

ScopeInit ==
    /\ metadata = [s \in Scopes |-> NULL]
    /\ obj = EmptyMap
    /\ released = FALSE
    /\ created = [cublas |-> 0, cusparse |-> 0]
    /\ destroyed = <<>>
    /\ nbuilt = EmptyMap
    /\ built_with = EmptyMap
    /\ last = [op |-> "none", scope |-> NULL]

\* INITIALIZE_AND_REFERENCE at the head of an entry point called on scope s.
Referenced(s, outcome) == ReferenceIn(obj, metadata[s], created, outcome)

\* An entry point called on scope s: the reference macro, then its body,
\* which leaves o in place of the object of the scope, unless a failed
\* creation abandoned the call.
Call(s, outcome, op, o) ==
    /\ IF metadata[s] = NULL THEN TRUE
       ELSE obj[metadata[s]].cuhandle = NULL \/ outcome = "ok"
    /\ LET e == Referenced(s, outcome)
       IN /\ metadata' = [metadata EXCEPT ![s] = e.metadata]
          /\ obj' = Put(obj, e.metadata, IF e.ok THEN o ELSE e.obj)
          /\ created' = e.created
          /\ last' = [op |-> op, scope |-> s]
          /\ UNCHANGED <<released, destroyed, nbuilt, built_with>>

\* t_initialize_coords
ScopeRegister(s, coords, p_pixel_dist, outcome) ==
    Call(s, outcome, "initialize_coords",
         InitializeCoords(Referenced(s, outcome).obj, coords, p_pixel_dist).obj)

\* t_conv_fw, t_conv_tr_fw
ScopeForward(s, req, IS_TRANSPOSE, outcome) ==
    Call(s, outcome, IF IS_TRANSPOSE THEN "conv_tr_fw" ELSE "conv_fw",
         OutCoordsAndKernelMap(Referenced(s, outcome).obj,
                               DefaultVarsAndHashes(req, IS_TRANSPOSE), req,
                               IS_TRANSPOSE).obj)

\* t_global_avg_pooling_fw
ScopeGlobal(s, req, outcome) ==
    Call(s, outcome, "global_fw",
         GlobalOutCoordsAndKernelMap(Referenced(s, outcome).obj,
                                     DefaultGlobalVarsAndHashes(req)).obj)

\* t_clear
ScopeClear(s, outcome) ==
    Call(s, outcome, "clear", Clear(Referenced(s, outcome).obj))

NextScopes ==
    \E s \in Scopes, x \in ScopeOutcomes :
       \/ \E c \in ScopeBatches, p \in InitPixelDistInputs :
             ScopeRegister(s, c, p, x)
       \/ \E req \in ScopeRequests, t \in BOOLEAN : ScopeForward(s, req, t, x)
       \/ \E req \in ScopeGlobalRequests : ScopeGlobal(s, req, x)
       \/ ScopeClear(s, x)

SpecScopes == ScopeInit /\ [][NextScopes]_vars

(***************************************************************************)
(* Concurrent callers of t_conv_fw on one scope.  The file takes no lock,  *)
(* so the statements of INITIALIZE_OUT_COORDS_AND_KERNEL_MAP(false) of one *)
(* caller interleave with those of another.  `last' holds, per caller,     *)
(* the line it is at (pc), its arguments, the tuple its builder returned,  *)
(* its return value and the maps it finds under its key on return.  Two    *)
(* unordered accesses to one container, one of them a write, are a data    *)
(* race: the access may then have any of its outcomes.                     *)
(***************************************************************************)
NThreads == 2
Threads == 1..NThreads

\* The container a caller at line pc accesses next, and whether it writes.
AccessAt(pc) ==
    CASE pc = "l164" -> [container |-> "coord2inds", write |-> FALSE]
      [] pc = "l177" -> [container |-> "coord2inds", write |-> FALSE]
      [] pc = "l178" -> [container |-> "coord2inds", write |-> TRUE]
      [] pc = "l183" -> [container |-> "in_maps", write |-> FALSE]
      [] pc = "l184" -> [container |-> "coord2inds", write |-> FALSE]
      [] pc = "l188" -> [container |-> "in_maps", write |-> TRUE]
      [] pc = "l189" -> [container |-> "out_maps", write |-> TRUE]
      [] OTHER -> [container |-> "none", write |-> FALSE]

\* The next access of caller t is unordered with a conflicting access of
\* another caller.
Races(th, t) ==
    \E u \in Threads \ {t} :
       /\ AccessAt(th[u].pc).container = AccessAt(th[t].pc).container
       /\ AccessAt(th[u].pc).write \/ AccessAt(th[t].pc).write

\* Outcomes of find(...) == end(): the answer of the container, or either
\* answer under a race.
FindOutcomes(th, t, missing) == IF Races(th, t) THEN BOOLEAN ELSE {missing}

\* Outcomes of an insertion: done, or lost under a race.
StoreOutcomes(th, t) == IF Races(th, t) THEN {"stored", "lost"} ELSE {"stored"}

Idle == [pc |-> "idle", req |-> NULL, tuple |-> NULL, ret |-> NULL, seen |-> NULL]

VarsOf(c) == DefaultVarsAndHashes(c.req, FALSE)

\* The requests of the callers: the hypercube region at either resolution.
ThreadRequests == {req \in Requests : req.region_type = HYPERCUBE}

\* The scope of the callers: handles created, one batch registered.
ThreadInit ==
    \E c \in ScopeBatches :
       LET e == InitializeAndReference(NULL, NewMetadata,
                                       [cublas |-> 0, cusparse |-> 0], "ok")
       IN /\ metadata = e.metadata
          /\ obj = InitializeCoords(e.obj, c, <<1>>).obj
          /\ created = e.created
          /\ released = FALSE
          /\ destroyed = <<>>
          /\ nbuilt = EmptyMap
          /\ built_with = EmptyMap
          /\ last = [op |-> "threads", th |-> [t \in Threads |-> Idle]]

\* Caller t moves on with the local state c.
Moves(t, c) == last' = [last EXCEPT !.th[t] = c]

\* The maps cached under the key of c.
Observed(o, c) ==
    [in_map |-> IF Find(o.in_maps, VarsOf(c).key)
                THEN o.in_maps[VarsOf(c).key] ELSE NULL,
     out_map |-> IF Find(o.out_maps, VarsOf(c).key)
                 THEN o.out_maps[VarsOf(c).key] ELSE NULL]

\* t_conv_fw entered: INITIALIZE_AND_REFERENCE on the initialized slot,
\* INITIALIZE_DEFAULT_VARS_AND_HASHES(false).
ThreadCall(t, req) ==
    /\ last.th[t].pc = "idle"
    /\ Moves(t, [Idle EXCEPT !.pc = "l164", !.req = req])
    /\ UNCHANGED <<metadata, obj, released, created, destroyed, nbuilt, built_with>>

\* Line 164: if (p_coord2inds->find(pixel_dist_hash) == end) return -1.
ThreadFindInCoords(t) ==
    LET c == last.th[t]
    IN /\ c.pc = "l164"
       /\ \E missing \in FindOutcomes(last.th, t, InCoordsMissing(obj, VarsOf(c))) :
             Moves(t, IF missing
                      THEN [c EXCEPT !.pc = "returned", !.ret = FAILURE]
                      ELSE [c EXCEPT !.pc = "l177"])
       /\ UNCHANGED <<metadata, obj, released, created, destroyed, nbuilt, built_with>>

\* Line 177: if (p_coord2inds->find(out_pixel_dist_hash) == end).
ThreadFindOutCoords(t) ==
    LET c == last.th[t]
    IN /\ c.pc = "l177"
       /\ \E missing \in FindOutcomes(last.th, t, OutCoordsMissing(obj, VarsOf(c))) :
             Moves(t, [c EXCEPT !.pc = IF missing THEN "l178" ELSE "l183"])
       /\ UNCHANGED <<metadata, obj, released, created, destroyed, nbuilt, built_with>>

\* Lines 178-181: (*p_coord2inds)[out_pixel_dist_hash] =
\* CreateOutputCoordIndexMap((*p_coord2inds)[pixel_dist_hash], ...).
ThreadStoreOutCoords(t) ==
    LET c == last.th[t]
        v == VarsOf(c)
        m == Subscript(obj.coord2inds, v.pixel_dist_hash, NewCoordIndexMap)
    IN /\ c.pc = "l178"
       /\ \E x \in StoreOutcomes(last.th, t) :
             obj' = IF x = "lost" THEN obj
                    ELSE [obj EXCEPT !.coord2inds =
                             Put(m, v.out_pixel_dist_hash,
                                 CreateOutputCoordIndexMap(
                                     m[v.pixel_dist_hash], v.pixel_dists,
                                     v.strides))]
       /\ Moves(t, [c EXCEPT !.pc = "l183"])
       /\ UNCHANGED <<metadata, released, created, destroyed, nbuilt, built_with>>

\* Line 183: if (p_in_maps->find(key) == p_in_maps->end()).
ThreadFindMap(t) ==
    LET c == last.th[t]
    IN /\ c.pc = "l183"
       /\ \E missing \in FindOutcomes(last.th, t, InOutMissing(obj, VarsOf(c))) :
             Moves(t, IF missing THEN [c EXCEPT !.pc = "l184"]
                      ELSE [c EXCEPT !.pc = "returned", !.ret = SUCCESS,
                                     !.seen = Observed(obj, c)])
       /\ UNCHANGED <<metadata, obj, released, created, destroyed, nbuilt, built_with>>

\* Lines 184-187: in_out_tuple = CreateInOutPerKernel(...): the builder runs.
ThreadBuild(t) ==
    LET c == last.th[t]
        v == VarsOf(c)
        a == BuilderArgs(obj, v)
    IN /\ c.pc = "l184"
       /\ obj' = a
       /\ nbuilt' = Put(nbuilt, v.key, Count(v.key) + 1)
       /\ Moves(t, [c EXCEPT !.pc = "l188",
                             !.tuple = CreateInOutPerKernel(
                                           a.coord2inds[v.pixel_dist_hash],
                                           a.coord2inds[v.out_pixel_dist_hash],
                                           v.pixel_dists, v.kernel_size,
                                           v.dilations, c.req.region_type,
                                           c.req.p_offset, c.req.n_offset)])
       /\ UNCHANGED <<metadata, released, created, destroyed, built_with>>

\* Line 188: (*p_in_maps)[key] = std::get<0>(in_out_tuple).
ThreadStoreIn(t) ==
    LET c == last.th[t]
    IN /\ c.pc = "l188"
       /\ \E x \in StoreOutcomes(last.th, t) :
             obj' = IF x = "lost" THEN obj
                    ELSE [obj EXCEPT !.in_maps = Put(@, VarsOf(c).key, c.tuple[1])]
       /\ Moves(t, [c EXCEPT !.pc = "l189"])
       /\ UNCHANGED <<metadata, released, created, destroyed, nbuilt, built_with>>

\* Line 189: (*p_out_maps)[key] = std::get<1>(in_out_tuple); the entry
\* point goes on with the maps under its key and returns.
ThreadStoreOut(t) ==
    LET c == last.th[t]
        o == [obj EXCEPT !.out_maps = Put(@, VarsOf(c).key, c.tuple[2])]
    IN /\ c.pc = "l189"
       /\ \E x \in StoreOutcomes(last.th, t) :
             LET o1 == IF x = "lost" THEN obj ELSE o
             IN /\ obj' = o1
                /\ Moves(t, [c EXCEPT !.pc = "returned", !.ret = SUCCESS,
                                      !.tuple = NULL,
                                      !.seen = Observed(o1, c)])
       /\ UNCHANGED <<metadata, released, created, destroyed, nbuilt, built_with>>

NextThreads ==
    \E t \in Threads :
       \/ \E req \in ThreadRequests : ThreadCall(t, req)
       \/ ThreadFindInCoords(t)
       \/ ThreadFindOutCoords(t)
       \/ ThreadStoreOutCoords(t)
       \/ ThreadFindMap(t)
       \/ ThreadBuild(t)
       \/ ThreadStoreIn(t)
       \/ ThreadStoreOut(t)

SpecThreads == ThreadInit /\ [][NextThreads]_vars

(***************************************************************************)
(* Several resolutions on one scope.  The callers register a batch of      *)
(* their own at either resolution, with different batch indices, and       *)
(* request strides of one and of two; the handles are created without      *)
(* failure.  The state is that of the single-scope specification.          *)
(***************************************************************************)
\* The batch registered at the fine resolution (batch indices 0 and 1) and
\* the one registered at the coarse resolution (batch indices 0 and 2).
FineBatch == << <<0, 0>>, <<1, 0>>, <<0, 0>>, <<2, 1>> >>
CoarseBatch == << <<0, 2>>, <<2, 0>> >>

ResolutionBatches ==
    { [coords |-> FineBatch, p_pixel_dist |-> <<1>>],
      [coords |-> CoarseBatch, p_pixel_dist |-> <<2>>] }

ResolutionRequests ==
    { [p_pixel_dist |-> p, p_stride |-> s, p_kernel_size |-> <<2>>,
       p_dilation |-> <<1>>, region_type |-> HYPERCUBE, p_offset |-> <<>>,
       n_offset |-> 0] : p \in PixelDistInputs, s \in {<<1>>, <<2>>} }

NextResolutions ==
    \/ \E b \in ResolutionBatches : InitCoords(b.coords, b.p_pixel_dist, "ok")
    \/ \E req \in ResolutionRequests : ConvForward(req, "ok")
    \/ \E req \in ResolutionRequests : ConvTransposeForward(req, "ok")
    \/ \E req \in GlobalRequests : GlobalForward(req, "ok")
    \/ ClearScope("ok")

SpecResolutions == Init /\ [][NextResolutions]_vars

(***************************************************************************)
(* Properties.                                                             *)
(***************************************************************************)
MappingOps == {"conv_fw", "conv_tr_fw", "global_fw"}
BackwardOps == {"conv_bw", "conv_tr_bw", "global_bw"}

\* A forward (t = FALSE) or transposed (t = TRUE) mapping request.
MapStep(req, t, x) ==
    IF t THEN ConvTransposeForward(req, x) ELSE ConvForward(req, x)

\* A successful request for key k either found the entry, ran no builder and
\* left the stored pair lists as they were, or built and stored both lists.
CachedOnce(k) ==
    last'.ret = SUCCESS =>
        /\ Find(obj'.in_maps, k) /\ Find(obj'.out_maps, k)
        /\ IF Find(obj.in_maps, k)
           THEN /\ obj'.in_maps[k] = obj.in_maps[k]
                /\ obj'.out_maps[k] = obj.out_maps[k]
                /\ nbuilt' = nbuilt
           ELSE Find(nbuilt', k) /\ nbuilt'[k] = 1

\* C1: between clears the in/out map builder runs at most once per geometry
\* key: the first forward, transposed or global request for a key builds and
\* stores in_maps[key] and out_maps[key]; every later request for the key
\* finds the entry, runs no builder and leaves the stored lists identical.
C1_BuilderOncePerKey ==
    /\ [](\A k \in DOMAIN nbuilt : nbuilt[k] <= 1)
    /\ [][last'.op \in MappingOps =>
            \A x \in CreateOutcomes :
               /\ \A req \in Requests, t \in BOOLEAN :
                     MapStep(req, t, x) =>
                         CachedOnce(DefaultVarsAndHashes(req, t).key)
               /\ \A req \in GlobalRequests :
                     GlobalForward(req, x) =>
                         CachedOnce(DefaultGlobalVarsAndHashes(req).key)]_vars

\* A request found its key cached, after the builder ran once for it.
C1_Witness ==
    /\ last.op \in MappingOps /\ last.note = "hit"
    /\ \E k \in DOMAIN nbuilt : nbuilt[k] = 1 /\ Find(in_maps, k)

\* The in/out map the builder of direction t returns for req on the
\* coordinate maps of the scope.
BuilderOutput(req, t) ==
    LET v == DefaultVarsAndHashes(req, t)
        in_map == coord2inds[v.pixel_dist_hash]
        out_map == coord2inds[v.out_pixel_dist_hash]
    IN IF t
       THEN CreateInOutPerKernelTranspose(
                in_map, out_map, v.out_pixel_dists, v.kernel_size, v.dilations,
                req.region_type, req.p_offset, req.n_offset)
       ELSE CreateInOutPerKernel(
                in_map, out_map, v.pixel_dists, v.kernel_size, v.dilations,
                req.region_type, req.p_offset, req.n_offset)

\* The key of every request is the tuple of the four hashes and the flag.
KeyOfFiveFields ==
    \A req \in Requests, t \in BOOLEAN :
       DefaultVarsAndHashes(req, t).key =
          <<hash_vec(req.p_pixel_dist), hash_vec(req.p_stride),
            hash_vec(req.p_kernel_size), hash_vec(req.p_dilation),
            U64(IF t THEN 1 ELSE 0)>>

\* C2: the cache identity of an in/out map is the five derived key fields
\* (resolution, stride, kernel-size and dilation hash, transpose flag) and
\* nothing else: the region descriptor is not part of the key, a request for
\* a cached key succeeds and leaves the entry as it is whatever its region,
\* and the cached entry is the map built for the region of the request that
\* first stored it.
C2_KeyIsFiveFields ==
    /\ [](/\ KeyOfFiveFields
          /\ \A req \in Requests, t \in BOOLEAN :
                LET k == DefaultVarsAndHashes(req, t).key
                IN Find(in_maps, k) /\ built_with[k] = RegionOf(req) =>
                      /\ in_maps[k] = BuilderOutput(req, t)[1]
                      /\ out_maps[k] = BuilderOutput(req, t)[2])
    /\ [][last'.op \in {"conv_fw", "conv_tr_fw"} =>
            \A x \in CreateOutcomes, req \in Requests, t \in BOOLEAN :
               LET k == DefaultVarsAndHashes(req, t).key
               IN MapStep(req, t, x) /\ Find(obj.in_maps, k) =>
                     /\ last'.ret = SUCCESS
                     /\ obj'.in_maps[k] = obj.in_maps[k]
                     /\ obj'.out_maps[k] = obj.out_maps[k]
                     /\ built_with'[k] = built_with[k]]_vars

\* A request found its key cached by a request with another region.
C2_Witness ==
    /\ last.op \in {"conv_fw", "conv_tr_fw"}
    /\ last.ret = SUCCESS /\ last.note = "hit_other_region"

\* What a backward check for key k may return.
BackwardOutcome(k) ==
    /\ last'.ret \in {FAILURE, SUCCESS}
    /\ ~Find(obj.in_maps, k) => last'.ret = FAILURE
    /\ last'.ret = SUCCESS => Find(obj.in_maps, k) /\ Count(k) >= 1

\* C3: a backward check for a geometry key with no forward in/out map in the
\* scope (never built, or dropped by a clear) returns the failure value; a
\* check that passes was preceded, since the last clear, by a forward request
\* that built the map of the same key.
C3_BackwardNeedsForwardMap ==
    [][last'.op \in BackwardOps =>
         \A x \in CreateOutcomes :
            /\ \A req \in GeomInputs, t \in BOOLEAN :
                  ConvBackward(req, t, x) /\ Enter(x).ok =>
                      BackwardOutcome(DefaultVarsAndHashes(req, t).key)
            /\ \A req \in GlobalRequests :
                  GlobalBackward(req, x) /\ Enter(x).ok =>
                      BackwardOutcome(DefaultGlobalVarsAndHashes(req).key)]_vars

\* A backward check failed on the in/out map alone: both coordinate maps
\* of its geometry were there.
C3_Witness ==
    last.op \in BackwardOps /\ last.ret = FAILURE /\ last.note = "no_map"

\* C4: a backward check, passing or failing, leaves coord2inds, in_maps and
\* out_maps as they were: its lookups insert nothing.
C4_BackwardCheckReadsOnly ==
    [][last'.op \in BackwardOps =>
         /\ obj'.coord2inds = obj.coord2inds
         /\ obj'.in_maps = obj.in_maps
         /\ obj'.out_maps = obj.out_maps]_vars

\* A backward check passed on a populated cache.
C4_Witness ==
    /\ last.op \in BackwardOps /\ last.ret = SUCCESS
    /\ in_maps # EmptyMap /\ coord2inds # EmptyMap

\* C5: a forward, transposed or global request that returns the failure
\* value leaves coord2inds, in_maps and out_maps as they were.
C5_FailureLeavesCache ==
    [][last'.op \in MappingOps /\ last'.ret = FAILURE =>
         /\ obj'.coord2inds = obj.coord2inds
         /\ obj'.in_maps = obj.in_maps
         /\ obj'.out_maps = obj.out_maps]_vars

\* A transposed request failed on its output coordinates, the input
\* coordinates being registered.
C5_Witness ==
    /\ last.op = "conv_tr_fw" /\ last.ret = FAILURE
    /\ last.note = "no_out_coords" /\ coord2inds # EmptyMap

\* C6: in_maps and out_maps have the same geometry keys, and for every
\* cached key and every kernel offset index the two pair lists have the
\* same length.
C6_MapPairing ==
    /\ DOMAIN in_maps = DOMAIN out_maps
    /\ \A key \in DOMAIN in_maps :
          /\ Len(in_maps[key]) = Len(out_maps[key])
          /\ \A k \in 1..Len(in_maps[key]) :
                Len(in_maps[key][k]) = Len(out_maps[key][k])

\* A cached key with a kernel offset that pairs at least one row.
C6_Witness ==
    \E key \in DOMAIN in_maps :
       \E k \in 1..Len(in_maps[key]) : Len(in_maps[key][k]) > 0

\* What a mapping request with locals v does when the input resolution has
\* no coordinate map.
Unregistered(v) ==
    ~Find(obj.coord2inds, v.pixel_dist_hash) =>
        /\ last'.ret = FAILURE
        /\ obj'.coord2inds = obj.coord2inds
        /\ ~Find(obj'.coord2inds, v.pixel_dist_hash)
        /\ ~Find(obj'.in_maps, v.key) /\ ~Find(obj'.out_maps, v.key)

\* C7: a forward, transposed or global request whose input pixel distance
\* has no coordinate map returns the failure value; no empty coordinate map
\* is inserted for that resolution and no in/out map is stored under the
\* key of the request.
C7_MissingResolutionFails ==
    [][last'.op \in MappingOps =>
         \A x \in CreateOutcomes :
            /\ \A req \in Requests, t \in BOOLEAN :
                  MapStep(req, t, x) /\ Enter(x).ok =>
                      Unregistered(DefaultVarsAndHashes(req, t))
            /\ \A req \in GlobalRequests :
                  GlobalForward(req, x) /\ Enter(x).ok =>
                      Unregistered(DefaultGlobalVarsAndHashes(req))]_vars

\* A mapping request failed on its input resolution while another
\* resolution was registered.
C7_Witness ==
    /\ last.op \in MappingOps /\ last.ret = FAILURE
    /\ last.note = "no_in_coords" /\ coord2inds # EmptyMap

\* C8: a transposed request adds no coordinate map: coord2inds is the same
\* after it as before, and when no map is registered at the output
\* resolution it fails without building or storing an in/out map.
C8_TransposeAddsNoCoords ==
    [][last'.op = "conv_tr_fw" =>
         /\ obj'.coord2inds = obj.coord2inds
         /\ \A x \in CreateOutcomes, req \in Requests :
               /\ ConvTransposeForward(req, x) /\ Enter(x).ok
               /\ ~Find(obj.coord2inds,
                        DefaultVarsAndHashes(req, TRUE).out_pixel_dist_hash)
               => /\ last'.ret = FAILURE
                  /\ obj'.in_maps = obj.in_maps
                  /\ obj'.out_maps = obj.out_maps
                  /\ nbuilt' = nbuilt]_vars

\* A transposed request built its in/out map on registered output
\* coordinates.
C8_Witness ==
    last.op = "conv_tr_fw" /\ last.ret = SUCCESS /\ last.note = "miss"

QueryOps == MappingOps \cup BackwardOps \cup {"get_num_coords"}

\* C9: after clear the three stores are empty; a row-count query for a
\* resolution without a coordinate map, and every query or mapping request
\* that follows a clear, reports the failure value.
C9_ClearEmptiesStores ==
    /\ [][last'.op = "clear" =>
            /\ obj'.coord2inds = EmptyMap
            /\ obj'.in_maps = EmptyMap
            /\ obj'.out_maps = EmptyMap]_vars
    /\ [][last'.op = "get_num_coords" =>
            \A x \in CreateOutcomes, p \in PixelDistInputs :
               /\ NumCoords(p, x) /\ Enter(x).ok
               /\ ~Find(obj.coord2inds, ArrHash(ToArray(p)))
               => last'.ret = FAILURE]_vars
    /\ [][last.op = "clear" /\ last'.op \in QueryOps /\ last'.ret # NULL =>
            last'.ret = FAILURE]_vars

\* A row-count query failed right after a clear that dropped registered
\* coordinates.
C9_Witness ==
    /\ last.op = "get_num_coords" /\ last.ret = FAILURE
    /\ last.note = "after_clear"

\* The destroy calls made on a created handle of library lib.
Released(lib) ==
    {i \in DOMAIN destroyed :
        destroyed[i].lib = lib /\ destroyed[i].handle # NULL}

C11_FailedCreationLeavesUninitialized ==
    ~released =>
        /\ metadata # NULL => cuhandle # NULL /\ cushandle # NULL
        /\ LET e == Enter("ok")
           IN e.ok /\ e.obj.cuhandle # NULL /\ e.obj.cushandle # NULL

\* A first access failed in cublasCreate: the slot is set all the same.
C11_Witness ==
    /\ ~released /\ metadata # NULL
    /\ cuhandle = NULL /\ cushandle = NULL /\ created.cublas = 0

\* The values the macros return on the scope as it is, per request: rcheck
\* of a backward check, rmap of a mapping request, kind the first thing the
\* request finds missing.
ReturnsOf(v, rmap) ==
    [rcheck |-> BackwardPropCheck(obj, v).ret, rmap |-> rmap,
     kind |-> IF InCoordsMissing(obj, v) THEN "no_in_coords"
              ELSE IF OutCoordsMissing(obj, v) THEN "no_out_coords"
              ELSE IF InOutMissing(obj, v) THEN "no_map"
              ELSE "none"]

MacroReturns ==
    { ReturnsOf(DefaultVarsAndHashes(req, t),
                OutCoordsAndKernelMap(obj, DefaultVarsAndHashes(req, t),
                                      req, t).ret) :
          req \in Requests, t \in BOOLEAN }
    \cup
    { ReturnsOf(DefaultGlobalVarsAndHashes(req),
                GlobalOutCoordsAndKernelMap(
                    obj, DefaultGlobalVarsAndHashes(req)).ret) :
          req \in GlobalRequests }

\* C12 as stated: a check failing on the input resolution returns another
\* value than one failing on the output coordinates or on the in/out map,
\* and a failed size assertion returns a third.
C12_KindsDistinguishable ==
    ~released =>
        \A r1, r2 \in MacroReturns :
           /\ r1.rcheck = FAILURE /\ r2.rcheck = FAILURE
           /\ r1.kind = "no_in_coords" /\ r2.kind # "no_in_coords"
           => /\ r1.rcheck # r2.rcheck
              /\ AssertEq(0, 1) \notin {r1.rcheck, r2.rcheck}

\* C12 (amended): every failure the macros detect is returned as the one
\* value -1: a missing input resolution, a missing output coordinate map, a
\* missing in/out map and a failed size assertion alike, so the returned
\* value tells a failure but not its kind.
C12_OneFailureValue ==
    /\ \A n \in RowCountInputs, m \in RowCountInputs :
          AssertEq(n, m) = IF n = m THEN NULL ELSE FAILURE
    /\ last.ret \in {NULL, SUCCESS, FAILURE}
    /\ last.note \in {"no_in_coords", "no_out_coords", "no_map", "assert"}
          => last.ret = FAILURE
    /\ ~released =>
          \A r \in MacroReturns :
             /\ r.rcheck = IF r.kind = "none" THEN NULL ELSE FAILURE
             /\ r.rmap \in {NULL, FAILURE}
             /\ r.kind = "no_in_coords" => r.rmap = FAILURE

\* A backward check failed on a missing in/out map while a request at
\* another resolution fails on its input resolution: both return the value
\* a failed size assertion returns.
C12_Witness ==
    /\ ~released
    /\ last.op \in BackwardOps /\ last.ret = FAILURE /\ last.note = "no_map"
    /\ \E r \in MacroReturns : r.kind = "no_in_coords" /\ r.rcheck = last.ret
    /\ AssertEq(0, 1) = last.ret

\* The number of distinct coordinates among the first n rows of a batch.
Distinct(coords, n) == Cardinality({coords[j] : j \in 1..n})

\* The first row of a batch that holds the coordinate of row i.
FirstRow(coords, i) == CHOOSE j \in 1..i :
    coords[j] = coords[i] /\ \A k \in 1..(j - 1) : coords[k] # coords[i]

\* The coordinate map a registration stored.
RegisteredMap == coord2inds[ArrHash(ToArray(CHOOSE p \in InitPixelDistInputs : TRUE))]

\* C13: a batch with repeats registered with duplicate collapsing gives a
\* map whose size() is the number of distinct coordinates, each with the
\* index of its first occurrence; registered with duplicate preservation it
\* gives a map whose size() is the number of rows of the batch.
C13_DuplicateScenario ==
    /\ last.op = "initialize_coords" /\ last.ret = SUCCESS =>
          /\ Size(RegisteredMap) = Distinct(last.coords, Len(last.coords))
          /\ \A i \in 1..Len(last.coords) :
                RegisteredMap.map[last.coords[i]] =
                    Distinct(last.coords, FirstRow(last.coords, i)) - 1
    /\ last.op = "initialize_coords_with_duplicates" /\ last.ret = SUCCESS =>
          Size(RegisteredMap) = Len(last.coords)

\* The batch [(0,0),(1,0),(0,0)] registered with duplicate preservation.
C13_Witness ==
    /\ last.op = "initialize_coords_with_duplicates" /\ last.ret = SUCCESS
    /\ last.coords = << <<0, 0>>, <<1, 0>>, <<0, 0>> >>
    /\ Size(RegisteredMap) = 2

\* m is the cell of resolution res that holds c: the batch index of c, and
\* in every spatial component the multiple of res at or below c.
IsCellOf(m, c, res) ==
    /\ m[D + 1] = c[D + 1]
    /\ \A i \in 1..D :
          /\ m[i] % res[i] = 0
          /\ m[i] <= c[i] /\ c[i] < m[i] + res[i]

\* Coordinates around the registered positions.
NearCoords == [1..(D + 1) -> (-8)..8]

CellsOf(coords, res) ==
    {m \in NearCoords : \E c \in coords : IsCellOf(m, c, res)}

\* What a forward request with locals v leaves at its output resolution
\* when it found no coordinate map there.
StridedCells(v) ==
    /\ Find(obj.coord2inds, v.pixel_dist_hash)
    /\ ~Find(obj.coord2inds, v.out_pixel_dist_hash)
    => /\ Find(obj'.coord2inds, v.out_pixel_dist_hash)
       /\ LET out == obj'.coord2inds[v.out_pixel_dist_hash]
              in == obj.coord2inds[v.pixel_dist_hash]
          IN /\ DOMAIN out.map = CellsOf(DOMAIN in.map, v.out_pixel_dists)
             /\ {out.map[m] : m \in DOMAIN out.map} = 0..(Size(out) - 1)
             /\ obj'.coord2inds[v.pixel_dist_hash] = in

\* C14: a non-transposed forward request that finds no coordinate map at
\* resolution input x stride registers there exactly the distinct cells of
\* its input coordinates: each spatial component rounded down to a multiple
\* of the new resolution, the batch index unchanged, every cell one row.
C14_StridedOutputCells ==
    [][last'.op = "conv_fw" =>
         \A req \in Requests :
            ConvForward(req, "ok") =>
                StridedCells(DefaultVarsAndHashes(req, FALSE))]_vars

\* Positions 0..5 of batch 0 at resolution 1, stride 2: the cells 0, 2, 4.
C14_Witness ==
    /\ last.op = "conv_fw" /\ last.ret = SUCCESS /\ last.note = "miss"
    /\ Find(coord2inds, ArrHash(<<1>>)) /\ Find(coord2inds, ArrHash(<<2>>))
    /\ DOMAIN coord2inds[ArrHash(<<1>>)].map = {<<x, 0>> : x \in 0..5}
    /\ DOMAIN coord2inds[ArrHash(<<2>>)].map = {<<0, 0>>, <<2, 0>>, <<4, 0>>}

\* The hash of the first n components of p, written from its last step: the
\* hash of the components before, times the prime, XOR component n mod 2^64.
RECURSIVE RefHash(_, _)
RefHash(p, n) ==
    IF n = 0 THEN OffsetBasis
    ELSE Xor64(Mul64(RefHash(p, n - 1), Prime), U64(p[n]))

\* Values of the function computed outside the model, least significant
\* byte first: 12638153115695167455 for (0), ..., 343060601702673979 for the
\* tuple of two -2147483647, and the hash of the geometry key of resolution
\* 1, stride 2, kernel size 2, dilation 1, not transposed.
HashValues ==
    /\ hash_vec(<<0>>) = <<223, 183, 1, 134, 76, 189, 99, 175>>
    /\ hash_vec(<<1>>) = <<222, 183, 1, 134, 76, 189, 99, 175>>
    /\ hash_vec(<<2>>) = <<221, 183, 1, 134, 76, 189, 99, 175>>
    /\ hash_vec(<<4>>) = <<219, 183, 1, 134, 76, 189, 99, 175>>
    /\ hash_vec(<<-1, 0>>) = <<96, 142, 20, 75, 248, 118, 205, 247>>
    /\ hash_vec(<<2, 1>>) = <<134, 108, 235, 180, 7, 134, 50, 8>>
    /\ hash_vec(<<0, 0>>) = <<237, 111, 235, 180, 7, 136, 50, 8>>
    /\ hash_vec(<<-ItypeMax, -ItypeMax>>) =
          <<59, 110, 235, 180, 204, 203, 194, 4>>
    /\ hash_vec64(<<hash_vec(<<1>>), hash_vec(<<2>>), hash_vec(<<2>>),
                    hash_vec(<<1>>), U64(0)>>) =
          <<145, 189, 159, 130, 56, 59, 110, 120>>

\* The keys the requests of the model derive, each hash written from its
\* last step.
RefArrHashes == {RefHash(p, D) : p \in ArrValues}

RefKeys ==
    { <<RefHash(req.p_pixel_dist, D), RefHash(req.p_stride, D),
        RefHash(req.p_kernel_size, D), RefHash(req.p_dilation, D),
        U64(IF t THEN 1 ELSE 0)>> : req \in Requests, t \in BOOLEAN }

\* The geometry key of resolution 1, stride 2, kernel size 2, dilation 1,
\* not transposed.
ExampleKey ==
    <<hash_vec(<<1>>), hash_vec(<<2>>), hash_vec(<<2>>), hash_vec(<<1>>),
      U64(0)>>

\* The three hashers are the one routine, and the routine is the loop.
OneRoutine ==
    /\ \A p \in ArrValues :
          ArrHash(p) = hash_vec(p) /\ hash_vec(p) = RefHash(p, D)
    /\ \A c \in CoordValues :
          CoordHash(c) = hash_vec(c) /\ hash_vec(c) = RefHash(c, D + 1)
    /\ \A k \in RefKeys :
          InOutKeyHash(k) = Xor64(Mul64(hash_vec64(SubSeq(k, 1, 4)), Prime),
                                  k[5])
    /\ hash_vec(<<>>) = OffsetBasis

\* C15: hash_vec starts at 14695981039346656037 and, for each component in
\* order, multiplies the running hash by 1099511628211 and XORs it with the
\* component as a 64-bit unsigned value, all mod 2^64; the keys of the
\* stores are values of this one function: a coordinate map is stored under
\* the hash of its resolution and an in/out map under the tuple of the four
\* hashes and the flag, which the same routine hashes again.
C15_HashVec ==
    /\ HashValues /\ OneRoutine
    /\ DOMAIN coord2inds \subseteq RefArrHashes
    /\ DOMAIN in_maps \subseteq RefKeys
    /\ DOMAIN out_maps \subseteq RefKeys

\* Coordinate maps at two resolutions and an in/out map, each under its
\* hash.
C15_Witness ==
    /\ Find(coord2inds, <<222, 183, 1, 134, 76, 189, 99, 175>>)
    /\ Find(coord2inds, <<221, 183, 1, 134, 76, 189, 99, 175>>)
    /\ Find(in_maps, ExampleKey)

\* The most negative value of Itype (int32_t).
ItypeMin == -ItypeMax - 1

\* The coordinate maps of the scope.
CoordMaps == {coord2inds[h] : h \in DOMAIN coord2inds}

\* C16 as stated: every component of the empty key of every coordinate map
\* is the most negative value of the index type, and the empty key is no
\* key of the map.
C16_EmptyKeyIsLowest ==
    \A m \in CoordMaps :
       /\ \A i \in 1..(D + 1) : m.empty_key[i] = ItypeMin
       /\ ~Find(m.map, m.empty_key)

\* C16 (amended): every component of the empty key of every coordinate map
\* is -max() of the index type, one above its most negative value, and the
\* empty key is no key of the map: registered coordinates, strided cells and
\* the origin coordinates of global pooling, whose spatial components are
\* that same value, all differ from it in the batch index.
C16_EmptyKeyIsMinusMax ==
    \A m \in CoordMaps :
       /\ DOMAIN m.empty_key = 1..(D + 1)
       /\ \A i \in 1..(D + 1) :
             m.empty_key[i] = -ItypeMax /\ m.empty_key[i] = ItypeMin + 1
       /\ ~Find(m.map, m.empty_key)
       /\ \A c \in DOMAIN m.map : c[D + 1] >= 0

\* A coordinate map that holds an origin coordinate: its spatial components
\* are those of the empty key.
C16_Witness ==
    \E m \in CoordMaps : \E c \in DOMAIN m.map :
       \A i \in 1..D : c[i] = m.empty_key[i]

(***************************************************************************)
(* Scopes.                                                                 *)
(***************************************************************************)
\* What scope s holds when the slots are m and the heap is h: the slot and
\* the stores and handles of the object behind it.
HeldBy(m, h, s) ==
    IF m[s] = NULL THEN [slot |-> NULL]
    ELSE [slot |-> m[s], coord2inds |-> h[m[s]].coord2inds,
          in_maps |-> h[m[s]].in_maps, out_maps |-> h[m[s]].out_maps,
          cuhandle |-> h[m[s]].cuhandle, cushandle |-> h[m[s]].cushandle]

\* C17: scopes are isolated.  A call or a clear on one scope leaves the
\* coord2inds, in_maps, out_maps and handles of every other scope as they
\* were, and no two scopes hold the same object or the same handle.
C17_ScopesIsolated ==
    /\ [](\A s, t \in Scopes :
             s # t /\ metadata[s] # NULL /\ metadata[t] # NULL
             => /\ metadata[s] # metadata[t]
                /\ obj[metadata[s]].cuhandle # obj[metadata[t]].cuhandle
                /\ obj[metadata[s]].cushandle # obj[metadata[t]].cushandle)
    /\ [][\A s \in Scopes :
             s # last'.scope
             => HeldBy(metadata', obj', s) = HeldBy(metadata, obj, s)]_vars

\* Scope 1 was just cleared while scope 2 still holds its coordinates and
\* the maps of a convolution.
C17_Witness ==
    /\ last.op = "clear" /\ last.scope = 1
    /\ metadata[1] # NULL /\ metadata[2] # NULL
    /\ obj[metadata[1]].coord2inds = EmptyMap
    /\ obj[metadata[2]].coord2inds # EmptyMap
    /\ obj[metadata[2]].in_maps # EmptyMap
    /\ obj[metadata[2]].out_maps # EmptyMap

\* The Metadata instances allocated so far.
Allocated == DOMAIN obj

\* C20: the lifecycle of a scope.  The first access through an empty slot
\* allocates exactly one Metadata and stores it in the slot; a later access
\* through the slot refers to the same instance and allocates nothing; a
\* clear empties the stores of the instance and keeps the instance, the slot
\* and the handles; a registration after a clear populates the scope again.
C20_ScopeLifecycle ==
    /\ [](/\ Allocated = {metadata[s] : s \in {t \in Scopes : metadata[t] # NULL}}
          /\ Cardinality(Allocated)
                = Cardinality({t \in Scopes : metadata[t] # NULL}))
    /\ [][LET s == last'.scope
              a == metadata'[s]
          IN /\ a # NULL
             /\ Allocated \subseteq DOMAIN obj'
             /\ IF metadata[s] = NULL
                THEN /\ a \notin Allocated
                     /\ DOMAIN obj' = Allocated \cup {a}
                ELSE /\ a = metadata[s]
                     /\ DOMAIN obj' = Allocated
                     /\ obj'[a].cuhandle = obj[a].cuhandle
                     /\ obj'[a].cushandle = obj[a].cushandle
             /\ obj'[a].cuhandle # NULL /\ obj'[a].cushandle # NULL
             /\ last'.op = "clear"
                => /\ obj'[a].coord2inds = EmptyMap
                   /\ obj'[a].in_maps = EmptyMap
                   /\ obj'[a].out_maps = EmptyMap
             /\ last.op = "clear" /\ last.scope = s
                   /\ last'.op = "initialize_coords"
                => obj'[a].coord2inds # EmptyMap]_vars

\* Scope t was just cleared: its slot still holds its instance, with its
\* handle and with empty stores, beside scope s whose maps are populated;
\* the two scopes have allocated two instances.
C20_Witness ==
    \E s, t \in Scopes :
       /\ s # t /\ metadata[s] # NULL /\ metadata[t] # NULL
       /\ last.op = "clear" /\ last.scope = t
       /\ obj[metadata[t]].coord2inds = EmptyMap
       /\ obj[metadata[t]].cuhandle # NULL
       /\ obj[metadata[s]].in_maps # EmptyMap
       /\ Cardinality(Allocated) = 2

(***************************************************************************)
(* The transpose flag of the key.                                          *)
(***************************************************************************)
\* The keys of the forward and of the transposed requests of the callers.
ForwardKeys == {DefaultVarsAndHashes(g, FALSE).key : g \in GeomInputs}
TransposedKeys == {DefaultVarsAndHashes(g, TRUE).key : g \in GeomInputs}

\* The in/out maps cached under the keys of K are still cached, unchanged.
KeptMaps(K) ==
    \A k \in K \cap DOMAIN obj.in_maps :
       /\ Find(obj'.in_maps, k) /\ obj'.in_maps[k] = obj.in_maps[k]
       /\ Find(obj'.out_maps, k) /\ obj'.out_maps[k] = obj.out_maps[k]

\* The keys that a step has added to in_maps.
NewKeys == DOMAIN obj'.in_maps \ DOMAIN obj.in_maps

\* C19: the transpose flag is part of the key.  The forward and the
\* transposed request of one geometry have different keys; a forward
\* request caches only under forward keys and leaves the maps of the
\* transposed keys as they were, and conversely; a backward check of one
\* direction passes only when a map is cached under the key of that
\* direction.
C19_TransposeInKey ==
    /\ [](\A g \in GeomInputs :
             DefaultVarsAndHashes(g, FALSE).key
                # DefaultVarsAndHashes(g, TRUE).key)
    /\ [][/\ last'.op = "conv_fw"
             => NewKeys \subseteq ForwardKeys /\ KeptMaps(TransposedKeys)
          /\ last'.op = "conv_tr_fw"
             => NewKeys \subseteq TransposedKeys /\ KeptMaps(ForwardKeys)
          /\ last'.op = "conv_bw" /\ last'.ret = SUCCESS
             => ForwardKeys \cap DOMAIN obj.in_maps # {}
          /\ last'.op = "conv_tr_bw" /\ last'.ret = SUCCESS
             => TransposedKeys \cap DOMAIN obj.in_maps # {}]_vars

\* A transposed backward check has failed for want of its map while the
\* map of the forward request of the same geometry is cached.
C19_Witness ==
    /\ last.op = "conv_tr_bw" /\ last.ret = FAILURE /\ last.note = "no_map"
    /\ \E g \in GeomInputs :
          /\ Find(obj.coord2inds, DefaultVarsAndHashes(g, TRUE).pixel_dist_hash)
          /\ Find(obj.coord2inds,
                  DefaultVarsAndHashes(g, TRUE).out_pixel_dist_hash)
          /\ Find(obj.in_maps, DefaultVarsAndHashes(g, FALSE).key)
          /\ ~Find(obj.in_maps, DefaultVarsAndHashes(g, TRUE).key)

(***************************************************************************)
(* Concurrent callers.                                                     *)
(***************************************************************************)
\* C18: when two callers concurrently request the same uncached key on one
\* scope, at most one builder runs for the key and the callers that return
\* successfully find the same maps cached under it.
C18_OneBuilderPerKey ==
    /\ \A k \in DOMAIN nbuilt : nbuilt[k] <= 1
    /\ \A t, u \in Threads :
          /\ last.th[t].pc = "returned" /\ last.th[t].ret = SUCCESS
          /\ last.th[u].pc = "returned" /\ last.th[u].ret = SUCCESS
          /\ VarsOf(last.th[t]).key = VarsOf(last.th[u]).key
          => last.th[t].seen = last.th[u].seen

\* Two callers have requested the same key, both were told that no map is
\* cached under it, and the builder has run for each of them.
C18_Witness ==
    \E t, u \in Threads :
       /\ t # u
       /\ last.th[t].pc = "l188" /\ last.th[u].pc = "l188"
       /\ VarsOf(last.th[t]).key = VarsOf(last.th[u]).key
       /\ Count(VarsOf(last.th[t]).key) = 2

(***************************************************************************)
(* The two handles of a scope.                                             *)
(***************************************************************************)
\* C22: the two handles of a scope are in the same state.  In every state,
\* also after a failed creation, cuhandle is null exactly when cushandle is
\* null, and a teardown passes either two created handles or none to the
\* libraries.
C22_HandlesTogether ==
    /\ (cuhandle = NULL) <=> (cushandle = NULL)
    /\ \A i, j \in DOMAIN destroyed :
          (destroyed[i].handle = NULL) <=> (destroyed[j].handle = NULL)

\* The scope was torn down after cublasCreate succeeded and cusparseCreate
\* failed: cublasDestroy got the created handle, cusparseDestroy got null.
C22_Witness ==
    /\ released /\ created.cublas = 1 /\ created.cusparse = 0
    /\ destroyed = << [lib |-> "cublas", handle |-> 1],
                      [lib |-> "cusparse", handle |-> NULL] >>

(***************************************************************************)
(* Coordinate maps under mapping requests.                                 *)
(***************************************************************************)
\* The key of the forward request at the fine resolution with stride s.
FineKey(s) ==
    <<ArrHash(<<1>>), ArrHash(s), ArrHash(<<2>>), ArrHash(<<1>>), U64(0)>>

\* C21: no mapping request replaces or removes a coordinate map.  A forward,
\* transposed or global request leaves every coordinate map that exists
\* before it under the same hash with the same rows and indices, a stride
\* of one included, and adds at most the map of its output resolution.
C21_CoordMapsStable ==
    [][last'.op \in MappingOps =>
          /\ \A h \in DOMAIN obj.coord2inds :
                /\ Find(obj'.coord2inds, h)
                /\ obj'.coord2inds[h] = obj.coord2inds[h]
          /\ Cardinality(DOMAIN obj'.coord2inds \ DOMAIN obj.coord2inds) <= 1
          /\ last'.ret = FAILURE => obj'.coord2inds = obj.coord2inds]_vars

\* Both batches are registered and the fine resolution has served a request
\* of stride one and a request of stride two: the maps are the registered
\* ones, the coarse map was not generated from the fine one.
C21_Witness ==
    /\ last.op = "conv_fw" /\ last.ret = SUCCESS /\ last.note = "miss"
    /\ Find(in_maps, FineKey(<<1>>)) /\ Find(in_maps, FineKey(<<2>>))
    /\ DOMAIN coord2inds = {ArrHash(<<1>>), ArrHash(<<2>>)}
    /\ coord2inds[ArrHash(<<1>>)] = InsertBatch(NewCoordIndexMap, FineBatch, 1)
    /\ coord2inds[ArrHash(<<2>>)] = InsertBatch(NewCoordIndexMap, CoarseBatch, 1)

(***************************************************************************)
(* The origin coordinate map.                                              *)
(***************************************************************************)
\* The hash the origin map is stored under: that of Arr<D, Itype>().
OriginHash == ArrHash(ZeroArr)

\* The batch indices of the rows of a coordinate map.
BatchIndices(cm) == {c[D + 1] : c \in DOMAIN cm.map}

\* A global request g has just succeeded: the origin map is stored under
\* OriginHash; one that existed before is unchanged; no in/out map but that
\* of g was added; and the origin map has one row per batch index of the
\* input coordinates of g.
OriginAfter(g) ==
    LET v == DefaultGlobalVarsAndHashes(g)
    IN /\ Find(obj'.coord2inds, OriginHash)
       /\ Find(obj.coord2inds, OriginHash)
          => obj'.coord2inds[OriginHash] = obj.coord2inds[OriginHash]
       /\ DOMAIN obj'.in_maps \ DOMAIN obj.in_maps \subseteq {v.key}
       /\ DOMAIN obj'.coord2inds[OriginHash].map =
             {OriginCoord(b) : b \in BatchIndices(obj.coord2inds[v.pixel_dist_hash])}
       /\ Size(obj'.coord2inds[OriginHash]) =
             Cardinality(BatchIndices(obj.coord2inds[v.pixel_dist_hash]))

\* C23: the origin map is stored under the hash of the all-zero resolution
\* and is created at most once between clears; a later global request from
\* another input resolution reuses it unchanged and builds only its own
\* in/out map; and for every global request the origin map has one row per
\* batch index present in the input coordinates of that request.
C23_OriginMap ==
    [][last'.op = "global_fw" /\ last'.ret = SUCCESS =>
          \A g \in GlobalRequests :
             GlobalForward(g, "ok") => OriginAfter(g)]_vars

\* Global requests from both resolutions have succeeded; the origin map is
\* the one of the first request and has no row for a batch index of the
\* coordinates of the other resolution.
C23_Witness ==
    /\ last.op = "global_fw" /\ last.ret = SUCCESS /\ last.note = "miss"
    /\ \A g \in GlobalRequests :
          /\ Find(coord2inds, DefaultGlobalVarsAndHashes(g).pixel_dist_hash)
          /\ Find(in_maps, DefaultGlobalVarsAndHashes(g).key)
    /\ Find(coord2inds, OriginHash)
    /\ \E g \in GlobalRequests :
          BatchIndices(coord2inds[DefaultGlobalVarsAndHashes(g).pixel_dist_hash])
             # BatchIndices(coord2inds[OriginHash])
====
